---- MODULE Spec2Model ----
(***************************************************************************)
(* Task service of healthcare-task-dashboard: four FastAPI routes          *)
(* (create_task, get_tasks, update_task, delete_task) over one table       *)
(* "tasks", each request working through its own SQLAlchemy session.       *)
(*                                                                         *)
(* A request is handled in steps; the steps that touch the store (query,   *)
(* flush+COMMIT, refresh) of different requests interleave freely.         *)
(***************************************************************************)
EXTENDS Integers, FiniteSets, Sequences, TLC

\* ---------------------------------------------------------------- bounds
MaxId == 2          \* values the id sequence may hand out
MaxSlots == 2       \* requests in flight at the same time
MaxKeys == 1        \* keys in one JSON request body
MaxRequests == 4    \* requests started in one behaviour

\* ---------------------------------------------------------------- values
NULL == "NULL"      \* JSON null / Python None / SQL NULL
BAD == "BAD"        \* a JSON value that cannot be coerced to the field's type
NoId == 0           \* "no id": key absent from a body, slot has no target

Fields == {"title", "assigned_to", "status", "due_date"}

Values(k) ==
  CASE k = "title" -> {"A", "B"}
    [] k = "assigned_to" -> {"Bob"}
    [] k = "status" -> {"open", "done"}
    [] k = "due_date" -> {"D1"}

Ids == 1..MaxId
Slots == 1..MaxSlots

\* A row of table "tasks" (models.py): id is the primary key, title NOT NULL.
Row(i, f) ==
  [id |-> i, title |-> f["title"], assigned_to |-> f["assigned_to"],
   status |-> f["status"], due_date |-> f["due_date"]]

\* Raw JSON bodies as a client sends them: a value for some of the task
\* fields, and possibly an "id" key (extra_id = NoId when the key is absent).
JsonValues(k) == Values(k) \cup {NULL, BAD}

FieldMaps(K) ==
  { g \in [K -> {NULL, BAD, "A", "B", "Bob", "open", "done", "D1"}] :
      \A k \in K : g[k] \in JsonValues(k) }

\* Bodies with at most n keys.
Bodies(n) ==
  UNION {
    { [fields |-> f, extra_id |-> i] :
        f \in FieldMaps(K),
        i \in { j \in 0..MaxId : Cardinality(K) + (IF j = NoId THEN 0 ELSE 1) <= n } }
    : K \in SUBSET Fields }

\* Bodies sent to PUT /tasks/{task_id}.
UpdateBodies == Bodies(MaxKeys)

\* Bodies sent to POST /tasks/: the same, and a title sent along with an id.
CreateBodies ==
  Bodies(MaxKeys) \cup
  { [fields |-> f, extra_id |-> i] : f \in FieldMaps({"title"}), i \in 1..MaxId }

EmptyBody == [fields |-> << >>, extra_id |-> NoId]

\* `.first()` found nothing / no object loaded.
NoRow == Row(NoId, [k \in Fields |-> NULL])

\* Faulty variant: title declared Optional, as in TaskUpdate.
TaskCreateValidTitleOptional(raw) ==
  \A k \in DOMAIN raw.fields : raw.fields[k] # BAD

\* ---------------------------------------------------------------- schemas
\* TaskCreate: title is a required str, the others Optional with default None.
TaskCreateValid(raw) ==
  /\ "title" \in DOMAIN raw.fields
  /\ raw.fields["title"] \in Values("title")
  /\ \A k \in DOMAIN raw.fields : raw.fields[k] # BAD

\* task.dict(): every declared field, defaults filled in; undeclared keys
\* of the body (such as "id") are not part of the schema and are dropped.
TaskCreateDict(raw) ==
  [fields |-> [k \in Fields |-> IF k \in DOMAIN raw.fields THEN raw.fields[k] ELSE NULL],
   id |-> NoId]

\* TaskUpdate: every field Optional.
TaskUpdateValid(raw) ==
  \A k \in DOMAIN raw.fields : raw.fields[k] # BAD

\* Faulty variant: task.dict() without exclude_unset, so omitted fields come as None.
TaskUpdateDictDefaults(raw) ==
  [fields |-> [k \in Fields |-> IF k \in DOMAIN raw.fields THEN raw.fields[k] ELSE NULL],
   id |-> NoId]

\* Faulty variant: an id field declared in TaskUpdate.
TaskUpdateDictWithId(raw) ==
  [fields |-> raw.fields, id |-> raw.extra_id]

\* task.dict(exclude_unset=True): only the declared fields the body supplied.
TaskUpdateDict(raw) ==
  [fields |-> raw.fields, id |-> NoId]

\* ---------------------------------------------------------------- responses
Resp(st, b, i, ts) == [status |-> st, body |-> b, id |-> i, tasks |-> ts]
NoResp == Resp(0, "none", NoId, {})

\* A handler's return value is serialized as the body of a 200 response.
Returned(b, i, ts) == Resp(200, b, i, ts)
\* An exception leaving the handler that is not an HTTPException.
Fault == Resp(500, "fault", NoId, {})
\* RequestValidationError raised by the framework before the handler runs.
ValidationError == Resp(422, "validation", NoId, {})

\* `return HTTPException(status_code=404, detail="Task not found")`
UpdateNotFound(i) == Returned("Task not found", i, {})
DeleteNotFound(i) == Returned("Task not found", i, {})

\* ---------------------------------------------------------------- state
VARIABLES
  store,      \* the rows of table "tasks"
  nextId,     \* next value of the id sequence
  pc,         \* pc[s]: where the request in slot s is
  kind,       \* kind[s]: "create", "list", "update", "delete" or "none"
  rid,        \* rid[s]: task_id of the path, or the id of the created row
  body,       \* body[s]: the JSON body of the request
  db_task,    \* db_task[s]: the row as the session loaded it, or NoRow
  resp,       \* resp[s]: the response of the request
  session,    \* session[s]: "none", "open" or "closed"
  closes,     \* closes[s]: db.close() calls of the request in slot s
  ended,      \* status of the last response sent
  started,    \* requests started so far
  created,    \* ids returned by a successful Create -> title given
  deleted,    \* ids confirmed by a successful Delete
  updated     \* ids written by an Update

vars == <<store, nextId, pc, kind, rid, body, db_task, resp, session, closes,
          ended, started, created, deleted, updated>>

StoreIds(st) == { r.id : r \in st }

\* db.query(models.Task).filter(models.Task.id == task_id)
QueryById(st, i) == { r \in st : r.id = i }

Init ==
  /\ store = {}
  /\ nextId = 1
  /\ pc = [s \in Slots |-> "idle"]
  /\ kind = [s \in Slots |-> "none"]
  /\ rid = [s \in Slots |-> NoId]
  /\ body = [s \in Slots |-> EmptyBody]
  /\ db_task = [s \in Slots |-> NoRow]
  /\ resp = [s \in Slots |-> NoResp]
  /\ session = [s \in Slots |-> "none"]
  /\ closes = [s \in Slots |-> 0]
  /\ ended = 0
  /\ started = 0
  /\ created = << >>
  /\ deleted = {}
  /\ updated = {}

\* ---------------------------------------------------------------- get_db
\* `db = SessionLocal()` ... `yield db`
GetDbEnter == "open"

\* Faulty variant: db.close() after the yield without try/finally.
GetDbExitNoFinally(r) == IF r.status = 500 THEN "open" ELSE "closed"

\* `finally: db.close()`: runs however the handler ended (r is its response).
GetDbExit(r) == "closed"

\* ---------------------------------------------------------------- the ORM
\* Faulty variant: title declared nullable.
TitleNullable(row) == TRUE

\* Column(String, nullable=False) on title.
TitleNotNull(row) == row.title # NULL

\* Faulty variant: every attribute the loop set is written, changed or not.
ChangedAllSet(row, d) == DOMAIN d.fields

\* Attributes of db_task whose value after the setattr loop differs from the
\* loaded one.  The unit of work puts only these in the UPDATE's SET clause:
\* an attribute set to the value it already had produces no SQL.
Changed(row, d) == { k \in DOMAIN d.fields : d.fields[k] # row[k] }

\* The same for the primary key, were the dict to carry an id.
IdChanged(row, d) == d.id # NoId /\ d.id # row.id

\* Faulty variant: the UPDATE writes every column from the session's copy of the row.
UpdatedFullRow(cur, row, d) ==
  LET col(k) == IF k \in DOMAIN d.fields THEN d.fields[k] ELSE row[k]
  IN [id |-> cur.id,
      title |-> col("title"), assigned_to |-> col("assigned_to"),
      status |-> col("status"), due_date |-> col("due_date")]

\* The row that `UPDATE tasks SET <changed> WHERE id = <pk>` leaves, given
\* the row cur it matched.
Updated(cur, row, d) ==
  LET col(k) == IF k \in Changed(row, d) THEN d.fields[k] ELSE cur[k]
  IN [id |-> IF IdChanged(row, d) THEN d.id ELSE cur.id,
      title |-> col("title"), assigned_to |-> col("assigned_to"),
      status |-> col("status"), due_date |-> col("due_date")]

\* Faulty variant: the flush writes the object back whether or not its row is still
\* there (session.merge instead of an UPDATE by primary key).
UpdateFlushUpsert(st, row, d) ==
  LET new == [id |-> row.id,
              title |-> IF "title" \in DOMAIN d.fields THEN d.fields["title"] ELSE row.title,
              assigned_to |-> IF "assigned_to" \in DOMAIN d.fields THEN d.fields["assigned_to"] ELSE row.assigned_to,
              status |-> IF "status" \in DOMAIN d.fields THEN d.fields["status"] ELSE row.status,
              due_date |-> IF "due_date" \in DOMAIN d.fields THEN d.fields["due_date"] ELSE row.due_date]
  IN IF new.title = NULL
     THEN [ok |-> FALSE, st |-> st]
     ELSE [ok |-> TRUE, st |-> (st \ QueryById(st, row.id)) \cup {new}]

\* db.commit() after the setattr loop: flush, then COMMIT.  ok = FALSE is an
\* exception out of commit(): StaleDataError when the UPDATE matched no row,
\* IntegrityError when the new row breaks a constraint; the transaction is
\* rolled back.
UpdateFlush(st, row, d) ==
  IF Changed(row, d) = {} /\ ~IdChanged(row, d)
  THEN [ok |-> TRUE, st |-> st]
  ELSE IF QueryById(st, row.id) = {}
  THEN [ok |-> FALSE, st |-> st]
  ELSE LET cur == CHOOSE r \in QueryById(st, row.id) : TRUE
           new == Updated(cur, row, d)
       IN IF TitleNotNull(new) /\ (new.id = cur.id \/ new.id \notin StoreIds(st))
          THEN [ok |-> TRUE, st |-> (st \ {cur}) \cup {new}]
          ELSE [ok |-> FALSE, st |-> st]

\* db.add(db_task); db.commit(): INSERT.  The id comes from the sequence
\* unless the object carries one; a value drawn from the sequence is used up
\* even if the INSERT then fails on a constraint.
InsertFlush(st, seq, d) ==
  LET i == IF d.id # NoId THEN d.id ELSE seq
      new == Row(i, d.fields)
      nxt == IF d.id # NoId THEN seq ELSE seq + 1
  IN IF TitleNotNull(new) /\ i \notin StoreIds(st)
     THEN [ok |-> TRUE, st |-> st \cup {new}, id |-> i, seq |-> nxt]
     ELSE [ok |-> FALSE, st |-> st, id |-> NoId, seq |-> nxt]

\* Faulty variant: db.delete() without the commit; close() rolls the DELETE back.
DeleteFlushNothing(st, row) == st

\* db.delete(db_task); db.commit(): DELETE ... WHERE id = <pk>.  A DELETE
\* that matches no row only warns (confirm_deleted_rows), it does not raise.
DeleteFlush(st, row) == st \ QueryById(st, row.id)

\* Faulty variant: .first() in place of .all().
GetTasksFirst(st) == IF st = {} THEN {} ELSE {CHOOSE r \in st : TRUE}

\* db.query(models.Task).all()
GetTasks(st) == st

\* ---------------------------------------------------------------- requests
\* A request is received, get_db opens its session and the framework
\* validates the body; none of this touches the store, so it is one step
\* with the handler's first statement.  Slots are interchangeable: a new
\* request takes the lowest idle one.
Free(s) ==
  /\ pc[s] = "idle"
  /\ \A t \in Slots : t < s => pc[t] # "idle"
  /\ started < MaxRequests

Begin(s, k, raw) ==
  /\ started' = started + 1
  /\ kind' = [kind EXCEPT ![s] = k]
  /\ body' = [body EXCEPT ![s] = raw]
  /\ session' = [session EXCEPT ![s] = GetDbEnter]
  /\ closes' = [closes EXCEPT ![s] = 0]

Goto(s, p, r) ==
  /\ pc' = [pc EXCEPT ![s] = p]
  /\ resp' = [resp EXCEPT ![s] = r]

At(s, k, p) == kind[s] = k /\ pc[s] = p

\* A body that fails validation: 422, the handler is never called.
Reject(s, k, i, raw) ==
  /\ Begin(s, k, raw)
  /\ rid' = [rid EXCEPT ![s] = i]
  /\ Goto(s, "done", ValidationError)
  /\ UNCHANGED <<store, nextId, db_task, ended, created, deleted, updated>>

\* POST /tasks/ -- create_task: db_task = models.Task(**task.dict());
\* db.add(db_task); db.commit()
CreateTask(s, raw) ==
  /\ Free(s)
  /\ nextId <= MaxId
  /\ IF ~TaskCreateValid(raw)
     THEN Reject(s, "create", NoId, raw)
     ELSE LET res == InsertFlush(store, nextId, TaskCreateDict(raw))
          IN /\ Begin(s, "create", raw)
             /\ store' = res.st
             /\ nextId' = res.seq
             /\ rid' = [rid EXCEPT ![s] = res.id]
             /\ IF res.ok THEN Goto(s, "committed", NoResp) ELSE Goto(s, "done", Fault)
             /\ UNCHANGED <<db_task, ended, created, deleted, updated>>

\* create_task: db.refresh(db_task); return db_task
CreateRefresh(s) ==
  /\ At(s, "create", "committed")
  /\ LET found == QueryById(store, rid[s])
     IN IF found = {}
        THEN Goto(s, "done", Fault) /\ UNCHANGED created
        ELSE /\ Goto(s, "done", Returned("task", rid[s], found))
             /\ created' = (rid[s] :> TaskCreateDict(body[s]).fields["title"]) @@ created
  /\ UNCHANGED <<store, nextId, kind, rid, body, db_task, session, closes, ended, started, deleted, updated>>

\* GET /tasks/ -- get_tasks
ListTasks(s) ==
  /\ Free(s)
  /\ Begin(s, "list", EmptyBody)
  /\ Goto(s, "done", Returned("tasks", NoId, GetTasks(store)))
  /\ UNCHANGED <<store, nextId, rid, db_task, ended, created, deleted, updated>>

\* PUT /tasks/{task_id} -- update_task: the query, the not-found return,
\* the setattr loop
UpdateQuery(s, i, raw) ==
  /\ Free(s)
  /\ IF ~TaskUpdateValid(raw)
     THEN Reject(s, "update", i, raw)
     ELSE LET found == QueryById(store, i)
          IN /\ Begin(s, "update", raw)
             /\ rid' = [rid EXCEPT ![s] = i]
             /\ IF found = {}
                THEN Goto(s, "done", UpdateNotFound(i)) /\ UNCHANGED db_task
                ELSE /\ Goto(s, "loaded", NoResp)
                     /\ db_task' = [db_task EXCEPT ![s] = CHOOSE r \in found : TRUE]
             /\ UNCHANGED <<store, nextId, ended, created, deleted, updated>>

\* update_task: db.commit()
UpdateCommit(s) ==
  /\ At(s, "update", "loaded")
  /\ LET res == UpdateFlush(store, db_task[s], TaskUpdateDict(body[s]))
     IN /\ store' = res.st
        /\ updated' = IF res.st # store THEN updated \cup {rid[s]} ELSE updated
        /\ IF res.ok THEN Goto(s, "committed", NoResp) ELSE Goto(s, "done", Fault)
  /\ UNCHANGED <<nextId, kind, rid, body, db_task, session, closes, ended, started, created, deleted>>

\* update_task: db.refresh(db_task); return db_task
UpdateRefresh(s) ==
  /\ At(s, "update", "committed")
  /\ LET found == QueryById(store, rid[s])
     IN IF found = {}
        THEN Goto(s, "done", Fault)
        ELSE Goto(s, "done", Returned("task", rid[s], found))
  /\ UNCHANGED <<store, nextId, kind, rid, body, db_task, session, closes, ended, started, created, deleted, updated>>

\* DELETE /tasks/{task_id} -- delete_task: the query and the not-found return
DeleteQuery(s, i) ==
  /\ Free(s)
  /\ Begin(s, "delete", EmptyBody)
  /\ rid' = [rid EXCEPT ![s] = i]
  /\ LET found == QueryById(store, i)
     IN IF found = {}
        THEN Goto(s, "done", DeleteNotFound(i)) /\ UNCHANGED db_task
        ELSE /\ Goto(s, "loaded", NoResp)
             /\ db_task' = [db_task EXCEPT ![s] = CHOOSE r \in found : TRUE]
  /\ UNCHANGED <<store, nextId, ended, created, deleted, updated>>

\* delete_task: db.delete(db_task); db.commit(); return the message
DeleteCommit(s) ==
  /\ At(s, "delete", "loaded")
  /\ store' = DeleteFlush(store, db_task[s])
  /\ deleted' = deleted \cup {rid[s]}
  /\ Goto(s, "done", Returned("deleted successfully", rid[s], {}))
  /\ UNCHANGED <<nextId, kind, rid, body, db_task, session, closes, ended, started, created, updated>>

\* The response is sent and get_db's generator is finished.
Finish(s) ==
  /\ pc[s] = "done"
  /\ session' = [session EXCEPT ![s] = GetDbExit(resp[s])]
  /\ closes' = [closes EXCEPT ![s] = IF GetDbExit(resp[s]) = "closed" THEN @ + 1 ELSE @]
  /\ ended' = resp[s].status
  /\ pc' = [pc EXCEPT ![s] = "idle"]
  /\ kind' = [kind EXCEPT ![s] = "none"]
  /\ rid' = [rid EXCEPT ![s] = NoId]
  /\ body' = [body EXCEPT ![s] = EmptyBody]
  /\ db_task' = [db_task EXCEPT ![s] = NoRow]
  /\ resp' = [resp EXCEPT ![s] = NoResp]
  /\ UNCHANGED <<store, nextId, started, created, deleted, updated>>

Next ==
  \E s \in Slots :
    \/ \E raw \in CreateBodies : CreateTask(s, raw)
    \/ CreateRefresh(s)
    \/ ListTasks(s)
    \/ \E i \in Ids, raw \in UpdateBodies : UpdateQuery(s, i, raw)
    \/ UpdateCommit(s)
    \/ UpdateRefresh(s)
    \/ \E i \in Ids : DeleteQuery(s, i)
    \/ DeleteCommit(s)
    \/ Finish(s)

Spec == Init /\ [][Next]_vars

\* ---------------------------------------------------------------- properties
TheRow(st, i) == CHOOSE r \in QueryById(st, i) : TRUE

\* Slot s takes this step.
Stepped(s) == pc'[s] # pc[s]

\* Slot s receives a request of kind k in this step.
Receives(s, k) == pc[s] = "idle" /\ kind'[s] = k

\* C1: for every id that has no stored task, Update(id, payload) and
\* Delete(id) each end in a genuine failure response (status 404 with the
\* message), never in a normally serialized 200 response.
CexC1 ==
  \A s \in Slots :
    ( /\ pc[s] = "done"
      /\ kind[s] \in {"update", "delete"}
      /\ resp[s].status # 422
      /\ db_task[s] = NoRow )
    => resp[s].status = 404 /\ resp[s].body = "Task not found"

ThmC3 ==
  [][\A s \in Slots :
       ( /\ Receives(s, "list")
         /\ \A t \in Slots \ {s} : pc[t] = "idle" )
       => LET ts == resp'[s].tasks
          IN /\ pc'[s] = "done"
             /\ resp'[s].status = 200
             /\ StoreIds(ts) = (DOMAIN created) \ deleted
             /\ Cardinality(ts) = Cardinality(StoreIds(ts))
             /\ \A r \in ts : r.id \notin updated => r.title = created[r.id]
    ]_vars

WitC3 ==
  \E s \in Slots :
    /\ At(s, "list", "done")
    /\ \A t \in Slots \ {s} : pc[t] = "idle"
    /\ deleted # {}
    /\ resp[s].tasks # {}
    /\ StoreIds(resp[s].tasks) = (DOMAIN created) \ deleted

\* The bodies C4 is about: no title key, or a value of the wrong type.
NoTitleOrBadType(raw) ==
  \/ "title" \notin DOMAIN raw.fields
  \/ \E k \in DOMAIN raw.fields : raw.fields[k] = BAD

\* C4: a Create whose body has no title, or a wrongly typed field, is
\* answered with a validation error without the handler running, and no step
\* of that request changes the table or the id sequence.
ThmC4 ==
  /\ [](\A s \in Slots :
          (kind[s] = "create" /\ NoTitleOrBadType(body[s]))
          => pc[s] = "done" /\ resp[s] = ValidationError)
  /\ [][\A s \in Slots :
          ( /\ Stepped(s)
            /\ \/ kind[s] = "create" /\ NoTitleOrBadType(body[s])
               \/ Receives(s, "create") /\ NoTitleOrBadType(body'[s]) )
          => store' = store /\ nextId' = nextId
       ]_vars

WitC4 ==
  \E s \in Slots :
    /\ At(s, "create", "done")
    /\ resp[s] = ValidationError
    /\ DOMAIN body[s].fields = {"assigned_to"}
    /\ store # {}

\* C5: a Delete(id) received after a Delete(id) has succeeded answers
\* "Task not found", not a second "deleted successfully", and leaves the
\* table unchanged.
ThmC5 ==
  [][\A s \in Slots :
       (Receives(s, "delete") /\ rid'[s] \in deleted)
       => /\ pc'[s] = "done"
          /\ resp'[s].body = "Task not found"
          /\ resp'[s].body # "deleted successfully"
          /\ store' = store
          /\ deleted' = deleted
    ]_vars

WitC5 ==
  \E s \in Slots :
    /\ At(s, "delete", "done")
    /\ rid[s] \in deleted
    /\ resp[s].body = "Task not found"
    /\ store # {}

\* C6: every stored task has a non-null title, in every reachable state.
ThmC6 == \A r \in store : r.title # NULL /\ r.title \in Values("title")

WitC6 ==
  \E s \in Slots :
    /\ At(s, "update", "done")
    /\ "title" \in DOMAIN body[s].fields
    /\ body[s].fields["title"] = NULL
    /\ resp[s] = Fault
    /\ QueryById(store, rid[s]) # {}

\* C7: ids are assigned by the store from its sequence when a task is
\* created, whatever id the body carries; no two stored tasks share an id;
\* and only a Create adds an id and only a Delete removes one: no step of an
\* Update, whatever its body, changes the ids of the stored rows.
ThmC7 ==
  /\ [](/\ Cardinality(StoreIds(store)) = Cardinality(store)
        /\ \A i \in StoreIds(store) : i < nextId)
  /\ [][\A s \in Slots :
          Stepped(s) =>
            IF Receives(s, "create") /\ pc'[s] = "committed"
            THEN /\ rid'[s] = nextId
                 /\ nextId' = nextId + 1
                 /\ StoreIds(store') = StoreIds(store) \cup {nextId}
            ELSE IF At(s, "delete", "loaded")
            THEN StoreIds(store') = StoreIds(store) \ {rid[s]}
            ELSE StoreIds(store') = StoreIds(store)
       ]_vars

WitC7 ==
  \E s, t \in Slots :
    /\ At(s, "create", "done")
    /\ resp[s].body = "task"
    /\ body[s].extra_id \notin {NoId, resp[s].id}
    /\ At(t, "update", "done")
    /\ resp[t].body = "task"
    /\ body[t].extra_id \notin {NoId, resp[t].id}

\* Update s commits last of two Updates of the same task that read the same
\* row; t has committed, the row is still there and s does not null the title.
CommitsLast(s, t) ==
  /\ s # t
  /\ At(s, "update", "loaded")
  /\ Stepped(s)
  /\ kind[t] = "update"
  /\ rid[t] = rid[s]
  /\ pc[t] \in {"committed", "done"}
  /\ resp[t].status \in {0, 200}
  /\ db_task[t] = db_task[s]
  /\ QueryById(store, rid[s]) # {}
  /\ \A k \in DOMAIN body[s].fields : k = "title" => body[s].fields[k] # NULL

\* C8 as stated: the later of two concurrent Updates is not rejected, and
\* every field both set holds, after its commit, the value it supplied.
CexC8 ==
  [][\A s, t \in Slots :
       CommitsLast(s, t)
       => /\ pc'[s] = "committed"
          /\ \A k \in DOMAIN body[s].fields \cap DOMAIN body[t].fields :
               TheRow(store', rid[s])[k] = body[s].fields[k]
    ]_vars

\* C8 amended: the later of two concurrent Updates is not rejected; a field
\* both set holds, after the later commit, the later request's value if that
\* value differs from the one the request read, and otherwise keeps what the
\* earlier commit left.
ThmC8 ==
  [][\A s, t \in Slots :
       CommitsLast(s, t)
       => /\ pc'[s] = "committed"
          /\ \A k \in DOMAIN body[s].fields \cap DOMAIN body[t].fields :
               TheRow(store', rid[s])[k] =
                 IF body[s].fields[k] # db_task[s][k]
                 THEN body[s].fields[k]
                 ELSE TheRow(store, rid[s])[k]
    ]_vars

WitC8 ==
  \E s, t \in Slots :
    /\ s # t
    /\ At(s, "update", "committed")
    /\ At(t, "update", "committed")
    /\ rid[s] = rid[t]
    /\ db_task[s] = db_task[t]
    /\ \E k \in DOMAIN body[s].fields \cap DOMAIN body[t].fields :
         /\ body[s].fields[k] # body[t].fields[k]
         /\ body[s].fields[k] # db_task[s][k]
         /\ body[t].fields[k] # db_task[s][k]
         /\ \E r \in QueryById(store, rid[s]) : r[k] = body[s].fields[k]

\* C9: a request in flight holds one open session; when its handling has
\* ended, however it ended, the session is closed and was closed once.
ThmC9 ==
  \A s \in Slots :
    IF pc[s] = "idle"
    THEN \/ session[s] = "none" /\ closes[s] = 0
         \/ session[s] = "closed" /\ closes[s] = 1
    ELSE session[s] = "open" /\ closes[s] = 0

WitC9 ==
  /\ ended = 500
  /\ \A s \in Slots : pc[s] = "idle"
  /\ \E s \in Slots : session[s] = "closed" /\ closes[s] = 1
  /\ \A s \in Slots : session[s] # "open"

\* C10: once a Delete of an id has committed, no row with that id is stored
\* again and no List() received later returns one, also when an Update that
\* read the row before commits afterwards.
ThmC10 ==
  /\ [](deleted \cap StoreIds(store) = {})
  /\ [][\A s \in Slots :
          Receives(s, "list") => StoreIds(resp'[s].tasks) \cap deleted = {}
       ]_vars

WitC10 ==
  \E s \in Slots :
    /\ At(s, "update", "done")
    /\ resp[s] = Fault
    /\ rid[s] \in deleted
    /\ db_task[s].id = rid[s]
    /\ rid[s] \notin updated
    /\ body[s].fields # << >>
    /\ \A k \in DOMAIN body[s].fields : body[s].fields[k] \notin {NULL, db_task[s][k]}

====
